---- MODULE Spec2Model ----
(***************************************************************************)
(* A model of csim.c, the set-associative cache simulator: main's geometry *)
(* arguments, simulateCache's trace loop, the three access operations      *)
(* (operationL, operationS, operationM), their handlers (hit, miss,        *)
(* eviction) and the rank update (updateLRU).                              *)
(*                                                                         *)
(* Machine words are sets of bit positions: an address is the set of the   *)
(* positions of its 1 bits among 0..WordBits-1, and an int or unsigned int *)
(* keeps the positions below IntBits.  Shifts, truncations and comparisons *)
(* are then exact at the width the C code computes them.                   *)
(***************************************************************************)
EXTENDS Integers, Sequences, FiniteSets, TLC

\* Bounds of the model.
MaxS == 1
MaxB == 1
MaxE == 2
MaxAddr == 4
MaxEvents == 4

\* mem_addr is unsigned long (64 bits); set, tag and the Line fields are (unsigned) int.
WordBits == 64
IntBits == 32

VARIABLES
    num_sets,        \* main: 1 << s
    block_size,      \* main: 1 << b
    lines_per_set,   \* main: E
    cache,           \* cache[i].Lines[j] = [valid, tag, lru]
    hit_count,
    miss_count,
    eviction_count,
    operation,       \* the kind letter fscanf read last
    address,         \* the address fscanf read last
    set,             \* the set index decoded from address
    tag,             \* the tag decoded from address
    printed,         \* what the last event wrote to stdout (verbose mode)
    pc,              \* "loop": reading the trace; "done": summary printed
    summary,         \* the triple given to printSummary, <<>> before
    nEvents,         \* trace records read so far
    recency,         \* reference model: per set, its tags, most recent first
    refClass         \* reference model: its classification of the last event

vars == <<num_sets, block_size, lines_per_set, cache, hit_count, miss_count,
          eviction_count, operation, address, set, tag, printed, pc, summary,
          nEvents, recency, refClass>>

geometry == <<num_sets, block_size, lines_per_set>>

----------------------------------------------------------------------------
(* Arithmetic of main and of the decoding in simulateCache.                *)

RECURSIVE Pow2(_)
Pow2(n) == IF n = 0 THEN 1 ELSE 2 * Pow2(n - 1)

\* (int)log2(x) for x >= 1
RECURSIVE Log2(_)
Log2(x) == IF x <= 1 THEN 0 ELSE 1 + Log2(x \div 2)

Min(S) == CHOOSE i \in S : \A j \in S : i <= j

\* x << n and x >> n on a 64-bit word, for a shift count within the width
Shl(x, n) == {i + n : i \in {j \in x : j + n < WordBits}}

Shr(x, n) == {i - n : i \in {j \in x : j >= n}}

\* A shift whose count is not below the width is undefined in C: the builds
\* either use the count modulo the width (x86-64, AArch64) or produce 0.
LeftShift(x, n) ==
    IF n \in 0..(WordBits - 1) THEN {Shl(x, n)} ELSE {Shl(x, n % WordBits), {}}

RightShift(x, n) ==
    IF n \in 0..(WordBits - 1) THEN {Shr(x, n)} ELSE {Shr(x, n % WordBits), {}}

\* the low 32 bits of a word: the conversion of mem_addr to int
Truncate(x) == x \cap (0..(IntBits - 1))

RECURSIVE BitValue(_)
BitValue(x) == IF x = {} THEN 0
               ELSE LET i == Min(x) IN Pow2(i) + BitValue(x \ {i})

\* the value of an int given by its bits (two's complement)
IntValue(x) ==
    IF (IntBits - 1) \in x
    THEN BitValue(x \ {IntBits - 1}) - 2147483647 - 1
    ELSE BitValue(x)

\* the tag shifted by the set-index width alone: the block-offset bits stay in it
TagOf_withOffset(a) ==
    {Truncate(y) : y \in RightShift(a, Log2(num_sets))}

\* tag = address >> ((int)log2(block_size) + (int)log2(num_sets))
TagOf(a) ==
    {Truncate(y) : y \in RightShift(a, Log2(block_size) + Log2(num_sets))}

\* set = (address << (64 - (lb + ls))) >> (64 - ls)
SetOf(a) ==
    LET lb == Log2(block_size)
        ls == Log2(num_sets)
        left == LeftShift(a, WordBits - (lb + ls))
    IN  {IntValue(Truncate(z)) : z \in UNION {RightShift(y, WordBits - ls) : y \in left}}

----------------------------------------------------------------------------
(* The cache operations.  A machine state st is the record of what the     *)
(* operations reach through their pointer arguments: cache, the three      *)
(* counters, found, and the line printed in verbose mode.                  *)

\* updateLRU indexing the cache with its loop counter: the lines of every set age
updateLRU_allSets(c, set_num, prev_lru) ==
    [s \in DOMAIN c |->
        [Lines |->
            [i \in DOMAIN c[s].Lines |->
                IF c[s].Lines[i].valid = 1 /\ c[s].Lines[i].lru <= prev_lru
                THEN IF c[s].Lines[i].lru = prev_lru
                     THEN [c[s].Lines[i] EXCEPT !.lru = 0]
                     ELSE [c[s].Lines[i] EXCEPT !.lru = @ + 1]
                ELSE c[s].Lines[i]]]]

\* updateLRU ageing every other valid line, whatever its rank
updateLRU_ageAll(c, set_num, prev_lru) ==
    [c EXCEPT ![set_num].Lines =
        [i \in DOMAIN @ |->
            IF @[i].valid = 1
            THEN IF @[i].lru = prev_lru
                 THEN [@[i] EXCEPT !.lru = 0]
                 ELSE [@[i] EXCEPT !.lru = (@ + 1) % lines_per_set]
            ELSE @[i]]]

\* updateLRU with < for <= : the accessed line's rank is never reset
updateLRU_strict(c, set_num, prev_lru) ==
    [c EXCEPT ![set_num].Lines =
        [i \in DOMAIN @ |->
            IF @[i].valid = 1 /\ @[i].lru < prev_lru
            THEN [@[i] EXCEPT !.lru = @ + 1]
            ELSE @[i]]]

updateLRU(c, set_num, prev_lru) ==
    [c EXCEPT ![set_num].Lines =
        [i \in DOMAIN @ |->
            IF @[i].valid = 1 /\ @[i].lru <= prev_lru
            THEN IF @[i].lru = prev_lru
                 THEN [@[i] EXCEPT !.lru = 0]
                 ELSE [@[i] EXCEPT !.lru = @ + 1]
            ELSE @[i]]]

\* hit installing the tag again, in the first line of the set
hit_rewrites(st, i, op, set_num, t) ==
    [st EXCEPT !.found = 1,
               !.hit_count = IF op = "M" THEN @ + 2 ELSE @ + 1,
               !.cache = updateLRU([@ EXCEPT ![set_num].Lines[0].tag = t],
                                   set_num, @[set_num].Lines[i].lru),
               !.printed = IF op = "M" THEN "hit hit" ELSE "hit"]

\* hit without the call of updateLRU: the ranks keep the order of filling
hit_noTouch(st, i, op, set_num, t) ==
    [st EXCEPT !.found = 1,
               !.hit_count = IF op = "M" THEN @ + 2 ELSE @ + 1,
               !.printed = IF op = "M" THEN "hit hit" ELSE "hit"]

hit(st, i, op, set_num, t) ==
    [st EXCEPT !.found = 1,
               !.hit_count = IF op = "M" THEN @ + 2 ELSE @ + 1,
               !.cache = updateLRU(@, set_num, @[set_num].Lines[i].lru),
               !.printed = IF op = "M" THEN "hit hit" ELSE "hit"]

\* miss that counts the miss only in the branch of 'M'
miss_uncounted(st, i, op, set_num, t) ==
    LET filled == [st.cache EXCEPT ![set_num].Lines[i].valid = 1,
                                   ![set_num].Lines[i].tag = t]
    IN  [st EXCEPT !.found = 1,
                   !.miss_count = IF op = "M" THEN @ + 1 ELSE @,
                   !.hit_count = IF op = "M" THEN @ + 1 ELSE @,
                   !.cache = updateLRU(filled, set_num, filled[set_num].Lines[i].lru),
                   !.printed = IF op = "M" THEN "miss hit" ELSE "miss"]

miss(st, i, op, set_num, t) ==
    LET filled == [st.cache EXCEPT ![set_num].Lines[i].valid = 1,
                                   ![set_num].Lines[i].tag = t]
    IN  [st EXCEPT !.found = 1,
                   !.miss_count = @ + 1,
                   !.hit_count = IF op = "M" THEN @ + 1 ELSE @,
                   !.cache = updateLRU(filled, set_num, filled[set_num].Lines[i].lru),
                   !.printed = IF op = "M" THEN "miss hit" ELSE "miss"]

\* eviction that leaves miss_count alone
eviction_uncounted(st, i, op, set_num, t) ==
    LET written == IF op = "L"
                   THEN [st.cache EXCEPT ![set_num].Lines[i].valid = 1,
                                         ![set_num].Lines[i].tag = t]
                   ELSE [st.cache EXCEPT ![set_num].Lines[i].tag = t]
    IN  [st EXCEPT !.found = 1,
                   !.hit_count = IF op = "M" THEN @ + 1 ELSE @,
                   !.eviction_count = @ + 1,
                   !.cache = updateLRU(written, set_num, written[set_num].Lines[i].lru),
                   !.printed = IF op = "M" THEN "miss eviction hit"
                               ELSE "miss eviction"]

\* eviction whose branch for 'S' and 'M' writes nothing to the line
eviction_loadOnly(st, i, op, set_num, t) ==
    LET written == IF op = "L"
                   THEN [st.cache EXCEPT ![set_num].Lines[i].valid = 1,
                                         ![set_num].Lines[i].tag = t]
                   ELSE st.cache
    IN  [st EXCEPT !.found = 1,
                   !.miss_count = @ + 1,
                   !.hit_count = IF op = "M" THEN @ + 1 ELSE @,
                   !.eviction_count = @ + 1,
                   !.cache = updateLRU(written, set_num, written[set_num].Lines[i].lru),
                   !.printed = IF op = "M" THEN "miss eviction hit"
                               ELSE "miss eviction"]

eviction(st, i, op, set_num, t) ==
    LET written == IF op = "L"
                   THEN [st.cache EXCEPT ![set_num].Lines[i].valid = 1,
                                         ![set_num].Lines[i].tag = t]
                   ELSE [st.cache EXCEPT ![set_num].Lines[i].tag = t]
    IN  [st EXCEPT !.found = 1,
                   !.miss_count = @ + 1,
                   !.hit_count = IF op = "M" THEN @ + 1 ELSE @,
                   !.eviction_count = @ + 1,
                   !.cache = updateLRU(written, set_num, written[set_num].Lines[i].lru),
                   !.printed = IF op = "M" THEN "miss eviction hit"
                               ELSE "miss eviction"]

\* the hit scan leaving the loop after its first line
HitLines_firstOnly(c, set_num, t) ==
    {i \in DOMAIN c[set_num].Lines :
        i = 0 /\ c[set_num].Lines[i].valid = 1 /\ c[set_num].Lines[i].tag = t}

\* the three scans of an operation: each stops at the first line it accepts
HitLines(c, set_num, t) ==
    {i \in DOMAIN c[set_num].Lines :
        c[set_num].Lines[i].valid = 1 /\ c[set_num].Lines[i].tag = t}

\* the free scan running from the last line down
FreeLines_last(c, set_num) ==
    {i \in DOMAIN c[set_num].Lines :
        /\ c[set_num].Lines[i].valid = 0
        /\ \A j \in DOMAIN c[set_num].Lines : c[set_num].Lines[j].valid = 0 => j <= i}

FreeLines(c, set_num) ==
    {i \in DOMAIN c[set_num].Lines : c[set_num].Lines[i].valid = 0}

LruLines(c, set_num) ==
    {i \in DOMAIN c[set_num].Lines : c[set_num].Lines[i].lru = lines_per_set - 1}

operationL(st, set_num, t) ==
    IF HitLines(st.cache, set_num, t) # {}
    THEN hit(st, Min(HitLines(st.cache, set_num, t)), "L", set_num, t)
    ELSE IF FreeLines(st.cache, set_num) # {}
    THEN miss(st, Min(FreeLines(st.cache, set_num)), "L", set_num, t)
    ELSE IF LruLines(st.cache, set_num) # {}
    THEN eviction(st, Min(LruLines(st.cache, set_num)), "L", set_num, t)
    ELSE st

operationS(st, set_num, t) ==
    IF HitLines(st.cache, set_num, t) # {}
    THEN hit(st, Min(HitLines(st.cache, set_num, t)), "S", set_num, t)
    ELSE IF FreeLines(st.cache, set_num) # {}
    THEN miss(st, Min(FreeLines(st.cache, set_num)), "S", set_num, t)
    ELSE IF LruLines(st.cache, set_num) # {}
    THEN eviction(st, Min(LruLines(st.cache, set_num)), "S", set_num, t)
    ELSE st

operationM(st, set_num, t) ==
    IF HitLines(st.cache, set_num, t) # {}
    THEN hit(st, Min(HitLines(st.cache, set_num, t)), "M", set_num, t)
    ELSE IF FreeLines(st.cache, set_num) # {}
    THEN miss(st, Min(FreeLines(st.cache, set_num)), "M", set_num, t)
    ELSE IF LruLines(st.cache, set_num) # {}
    THEN eviction(st, Min(LruLines(st.cache, set_num)), "M", set_num, t)
    ELSE st

----------------------------------------------------------------------------
(* The reference model of LRU: per set a recency list of tags, the most    *)
(* recent first, of at most lines_per_set tags.                            *)

InList(l, t) == \E k \in 1..Len(l) : l[k] = t

Without(l, t) == SelectSeq(l, LAMBDA x : x # t)

RefClassify(l, t) ==
    IF InList(l, t) THEN "hit"
    ELSE IF Len(l) < lines_per_set THEN "miss"
    ELSE "miss eviction"

RefTouch(l, t) ==
    IF InList(l, t) THEN <<t>> \o Without(l, t)
    ELSE IF Len(l) < lines_per_set THEN <<t>> \o l
    ELSE IF Len(l) = 0 THEN l
    ELSE <<t>> \o SubSeq(l, 1, Len(l) - 1)

RefAccess ==
    /\ refClass' = RefClassify(recency[set'], tag')
    /\ recency' = [recency EXCEPT ![set'] = RefTouch(@, tag')]

RefIdle ==
    /\ refClass' = ""
    /\ UNCHANGED recency

----------------------------------------------------------------------------
(* simulateCache: the trace loop.                                          *)

\* the bits of a natural number: what fscanf's %lx stores in address
Bits(k) == {i \in 0..(IntBits - 2) : (k \div Pow2(i)) % 2 = 1}

Addresses == {Bits(k) : k \in 0..MaxAddr}

\* kind letters that are none of L, S, M, I
OtherLetters == {"X"}

\* the state the operations are handed, before the event's handler runs
Machine ==
    [cache |-> cache, hit_count |-> hit_count, miss_count |-> miss_count,
     eviction_count |-> eviction_count, found |-> 0, printed |-> ""]

Commit(st) ==
    /\ cache' = st.cache
    /\ hit_count' = st.hit_count
    /\ miss_count' = st.miss_count
    /\ eviction_count' = st.eviction_count
    /\ printed' = st.printed

\* fscanf reads one record; tag and set are decoded from its address.  The
\* dispatch compares the first character of the kind alone (strncmp, n = 1),
\* so op stands for that character.
Fetch(op, a) ==
    /\ pc = "loop"
    /\ nEvents < MaxEvents
    /\ operation' = op
    /\ address' = a
    /\ tag' \in TagOf(a)
    /\ set' \in SetOf(a)
    /\ nEvents' = nEvents + 1
    /\ UNCHANGED <<geometry, pc, summary>>

Load ==
    \E a \in Addresses :
        /\ Fetch("L", a)
        /\ Commit(operationL(Machine, set', tag'))
        /\ RefAccess

Store ==
    \E a \in Addresses :
        /\ Fetch("S", a)
        /\ Commit(operationS(Machine, set', tag'))
        /\ RefAccess

Modify ==
    \E a \in Addresses :
        /\ Fetch("M", a)
        /\ Commit(operationM(Machine, set', tag'))
        /\ RefAccess

\* the dispatch with the branch of 'I' taken for that of 'L'
Instruction_asLoad ==
    \E a \in Addresses :
        /\ Fetch("I", a)
        /\ Commit(operationL(Machine, set', tag'))
        /\ RefIdle

Instruction ==
    \E a \in Addresses :
        /\ Fetch("I", a)
        /\ Commit(Machine)
        /\ RefIdle

\* the dispatch falling into the branch of 'L' for an unknown letter
Unrecognized_asLoad ==
    \E a \in Addresses, op \in OtherLetters :
        /\ Fetch(op, a)
        /\ Commit(operationL(Machine, set', tag'))
        /\ RefIdle

Unrecognized ==
    \E a \in Addresses, op \in OtherLetters :
        /\ Fetch(op, a)
        /\ Commit([Machine EXCEPT !.printed = "Error"])
        /\ RefIdle

\* fscanf returns other than 3: the loop ends, the cache is freed, the summary
\* is printed and simulateCache returns, which ends the life of its locals
EndOfTrace ==
    /\ pc = "loop"
    /\ pc' = "done"
    /\ summary' = <<hit_count, miss_count, eviction_count>>
    /\ cache' = <<>>
    /\ hit_count' = 0
    /\ miss_count' = 0
    /\ eviction_count' = 0
    /\ operation' = ""
    /\ address' = {}
    /\ set' = 0
    /\ tag' = {}
    /\ printed' = ""
    /\ nEvents' = 0
    /\ recency' = <<>>
    /\ refClass' = ""
    /\ UNCHANGED geometry

\* the cache as simulateCache builds it
ColdCache(S, E) ==
    [i \in 0..(S - 1) |->
        [Lines |-> [j \in 0..(E - 1) |-> [valid |-> 0, lru |-> j, tag |-> {}]]]]

\* main hands simulateCache the geometry; s = b = 0 is left out here: with it
\* both shifts of the set decoding have count 64 and the index may fall
\* outside the cache.
Init ==
    /\ \E s \in 0..MaxS, b \in 0..MaxB, E \in 0..MaxE :
        /\ s + b >= 1
        /\ num_sets = Pow2(s)
        /\ block_size = Pow2(b)
        /\ lines_per_set = E
    /\ cache = ColdCache(num_sets, lines_per_set)
    /\ hit_count = 0
    /\ miss_count = 0
    /\ eviction_count = 0
    /\ operation = ""
    /\ address = {}
    /\ set = 0
    /\ tag = {}
    /\ printed = ""
    /\ pc = "loop"
    /\ summary = <<>>
    /\ nEvents = 0
    /\ recency = [i \in 0..(num_sets - 1) |-> <<>>]
    /\ refClass = ""

Next ==
    \/ Load
    \/ Store
    \/ Modify
    \/ Instruction
    \/ Unrecognized
    \/ EndOfTrace

Spec == Init /\ [][Next]_vars

----------------------------------------------------------------------------
(* Vocabulary of the properties.                                           *)

\* the step consumes one trace record whose kind letter is in ops
EventStep(ops) ==
    /\ pc = "loop"
    /\ pc' = "loop"
    /\ nEvents' = nEvents + 1
    /\ operation' \in ops

\* a valid line of set i of cache c holds tag t
TagResident(c, i, t) ==
    \E j \in DOMAIN c[i].Lines : c[i].Lines[j].valid = 1 /\ c[i].Lines[j].tag = t

\* set i of cache c has a line with valid = 0
SetHasFree(c, i) ==
    \E j \in DOMAIN c[i].Lines : c[i].Lines[j].valid = 0

\* the counters move by exactly (dh, dm, de) in the step
CountersMove(dh, dm, de) ==
    /\ hit_count' = hit_count + dh
    /\ miss_count' = miss_count + dm
    /\ eviction_count' = eviction_count + de

\* the classification a verbose line stands for
ClassOf(line) ==
    CASE line \in {"hit", "hit hit"} -> "hit"
      [] line \in {"miss", "miss hit"} -> "miss"
      [] line \in {"miss eviction", "miss eviction hit"} -> "miss eviction"
      [] OTHER -> "none"

\* the tags of the valid lines of set i
ResidentTags(c, i) ==
    {c[i].Lines[j].tag : j \in {k \in DOMAIN c[i].Lines : c[i].Lines[k].valid = 1}}

----------------------------------------------------------------------------
(* C1. Rank permutation: with lines_per_set >= 1, in every state from the  *)
(* initial one on, the lru values of the lines of each set, valid and      *)
(* invalid together, are exactly 0..lines_per_set-1, each once.            *)
RankPermutation ==
    lines_per_set >= 1 =>
        \A i \in DOMAIN cache :
            /\ DOMAIN cache[i].Lines = 0..(lines_per_set - 1)
            /\ \A r \in 0..(lines_per_set - 1) :
                Cardinality({j \in DOMAIN cache[i].Lines : cache[i].Lines[j].lru = r}) = 1

\* an eviction has reordered a two-line set: line 0 is now the older one
RankPermutationWitness ==
    /\ lines_per_set = 2
    /\ pc = "loop"
    /\ eviction_count >= 1
    /\ cache[set].Lines[0].lru = 1
    /\ cache[set].Lines[1].lru = 0

(* C3. At most one line per tag: in every set no two valid lines hold the  *)
(* same tag.                                                               *)
AtMostOneLinePerTag ==
    \A i \in DOMAIN cache :
        \A j, k \in DOMAIN cache[i].Lines :
            (/\ j # k
             /\ cache[i].Lines[j].valid = 1
             /\ cache[i].Lines[k].valid = 1)
            => cache[i].Lines[j].tag # cache[i].Lines[k].tag

\* a full two-line set whose second line was just hit
AtMostOneLinePerTagWitness ==
    /\ lines_per_set = 2
    /\ pc = "loop"
    /\ printed = "hit"
    /\ cache[set].Lines[0].valid = 1
    /\ cache[set].Lines[1].valid = 1
    /\ cache[set].Lines[1].tag = tag
    /\ cache[set].Lines[0].tag # tag

EvictionOnlyWhenFull ==
    [][EventStep({"L", "S", "M"}) =>
        /\ eviction_count' \in {eviction_count, eviction_count + 1}
        /\ (eviction_count' = eviction_count + 1)
            <=> (~SetHasFree(cache, set') /\ ~TagResident(cache, set', tag'))
    ]_vars

\* the statement of C4 kept to geometries with at least one line per set
EvictionOnlyWhenFullNonEmpty ==
    [][(lines_per_set >= 1 /\ EventStep({"L", "S", "M"})) =>
        /\ eviction_count' \in {eviction_count, eviction_count + 1}
        /\ (eviction_count' = eviction_count + 1)
            <=> (~SetHasFree(cache, set') /\ ~TagResident(cache, set', tag'))
    ]_vars

(* C5. Load/Store accounting: with lines_per_set >= 1 a Load or Store is   *)
(* a hit (+1, 0, 0) when its tag is resident, a miss (0, +1, 0) when it is *)
(* not and the set has a free line, a miss with eviction (0, +1, +1) when  *)
(* it is not and the set is full; so some counter always changes.          *)
LoadStoreAccounting ==
    [][(lines_per_set >= 1 /\ EventStep({"L", "S"})) =>
        /\ TagResident(cache, set', tag') =>
            (printed' = "hit" /\ CountersMove(1, 0, 0))
        /\ (~TagResident(cache, set', tag') /\ SetHasFree(cache, set')) =>
            (printed' = "miss" /\ CountersMove(0, 1, 0))
        /\ (~TagResident(cache, set', tag') /\ ~SetHasFree(cache, set')) =>
            (printed' = "miss eviction" /\ CountersMove(0, 1, 1))
        /\ <<hit_count', miss_count', eviction_count'>>
               # <<hit_count, miss_count, eviction_count>>
    ]_vars

\* a Store has just evicted, after at least one hit and two fills
LoadStoreAccountingWitness ==
    /\ pc = "loop"
    /\ operation = "S"
    /\ printed = "miss eviction"
    /\ hit_count >= 1
    /\ miss_count >= 3
    /\ eviction_count = 1

(* C6. Modify accounting: a Modify changes the counters by (+1, +1, 0)     *)
(* when its tag is not resident and the set has a free line, by            *)
(* (+1, +1, +1) when its tag is not resident and the set is full, and by   *)
(* (+2, 0, 0) when its tag is resident.                                    *)
ModifyAccounting ==
    [][EventStep({"M"}) =>
        /\ TagResident(cache, set', tag') => CountersMove(2, 0, 0)
        /\ (~TagResident(cache, set', tag') /\ SetHasFree(cache, set')) =>
            CountersMove(1, 1, 0)
        /\ (~TagResident(cache, set', tag') /\ ~SetHasFree(cache, set')) =>
            CountersMove(1, 1, 1)
    ]_vars

\* the statement of C6 kept to geometries with at least one line per set
ModifyAccountingNonEmpty ==
    [][(lines_per_set >= 1 /\ EventStep({"M"})) =>
        /\ TagResident(cache, set', tag') => CountersMove(2, 0, 0)
        /\ (~TagResident(cache, set', tag') /\ SetHasFree(cache, set')) =>
            CountersMove(1, 1, 0)
        /\ (~TagResident(cache, set', tag') /\ ~SetHasFree(cache, set')) =>
            CountersMove(1, 1, 1)
    ]_vars

\* what a Load of (i, t) followed by a Store of (i, t) makes of machine state st
LoadThenStore(st, i, t) ==
    operationS([operationL(st, i, t) EXCEPT !.found = 0, !.printed = ""], i, t)

(* C7. Modify is a Load followed by a Store: a Modify leaves the cache and *)
(* the counters as a Load of its address followed by a Store of it does;   *)
(* in particular that Store, the second sub-access, is a hit.              *)
ModifyIsLoadThenStore ==
    [][EventStep({"M"}) =>
        /\ cache' = LoadThenStore(Machine, set', tag').cache
        /\ hit_count' = LoadThenStore(Machine, set', tag').hit_count
        /\ miss_count' = LoadThenStore(Machine, set', tag').miss_count
        /\ eviction_count' = LoadThenStore(Machine, set', tag').eviction_count
        /\ LoadThenStore(Machine, set', tag').printed = "hit"
    ]_vars

\* the statement of C7 kept to geometries with at least one line per set
ModifyIsLoadThenStoreNonEmpty ==
    [][(lines_per_set >= 1 /\ EventStep({"M"})) =>
        /\ cache' = LoadThenStore(Machine, set', tag').cache
        /\ hit_count' = LoadThenStore(Machine, set', tag').hit_count
        /\ miss_count' = LoadThenStore(Machine, set', tag').miss_count
        /\ eviction_count' = LoadThenStore(Machine, set', tag').eviction_count
        /\ LoadThenStore(Machine, set', tag').printed = "hit"
    ]_vars

(* C8. Repeated access hits: when a Load follows a Load of the same        *)
(* address with no event in between, the first was a hit, a miss or a miss *)
(* with eviction and the second is a hit that increments the hit counter   *)
(* alone; after any Load, Store or Modify the accessed tag is resident in  *)
(* a valid line of its set.                                                *)
RepeatedLoadHits ==
    [][/\ (EventStep({"L"}) /\ operation = "L" /\ address' = address) =>
            /\ ClassOf(printed) \in {"hit", "miss", "miss eviction"}
            /\ printed' = "hit"
            /\ CountersMove(1, 0, 0)
       /\ EventStep({"L", "S", "M"}) => TagResident(cache', set', tag')
    ]_vars

\* the statement of C8 kept to geometries with at least one line per set
RepeatedLoadHitsNonEmpty ==
    [][lines_per_set >= 1 =>
        /\ (EventStep({"L"}) /\ operation = "L" /\ address' = address) =>
            /\ ClassOf(printed) \in {"hit", "miss", "miss eviction"}
            /\ printed' = "hit"
            /\ CountersMove(1, 0, 0)
        /\ EventStep({"L", "S", "M"}) => TagResident(cache', set', tag')
    ]_vars

(* C9. Configuration error: with lines_per_set = 0 no run is started: no   *)
(* trace record is processed and no summary is printed.                    *)
ZeroLinesRejected ==
    lines_per_set = 0 => (nEvents = 0 /\ summary = <<>>)

(* C10. Unrecognized event kind: an event whose letter is none of L, S, M, *)
(* I prints the error line and leaves every line of the cache and the      *)
(* three counters as they were: the operations of the events that follow   *)
(* are handed the machine state they would have been handed without it.    *)
UnrecognizedKindIgnored ==
    [][EventStep(OtherLetters) =>
        /\ printed' = "Error"
        /\ cache' = cache
        /\ CountersMove(0, 0, 0)
        /\ Machine' = Machine
    ]_vars

\* an unknown letter was read while the cache held a block
UnrecognizedKindIgnoredWitness ==
    /\ pc = "loop"
    /\ operation \in OtherLetters
    /\ printed = "Error"
    /\ miss_count >= 1
    /\ \E i \in DOMAIN cache : ResidentTags(cache, i) # {}

(* C11. Instruction events are ignored: an Instruction event, whatever its *)
(* address, leaves the three counters and every line of every set (valid,  *)
(* tag, lru) as they were.                                                 *)
InstructionIgnored ==
    [][EventStep({"I"}) =>
        /\ cache' = cache
        /\ CountersMove(0, 0, 0)
    ]_vars

\* an Instruction record was read while the cache held a block
InstructionIgnoredWitness ==
    /\ pc = "loop"
    /\ operation = "I"
    /\ miss_count >= 1
    /\ address # {}
    /\ \E i \in DOMAIN cache : ResidentTags(cache, i) # {}

(* C14. Touch effect: on every hit, fill and eviction, with r the rank of  *)
(* the accessed line before the event, afterwards the accessed line has    *)
(* rank 0, every other line of the set whose rank was below r has its rank *)
(* increased by 1, and every line whose rank was above r keeps its rank.   *)
TouchEffect ==
    [][(EventStep({"L", "S", "M"}) /\ ClassOf(printed') # "none") =>
        \E j \in DOMAIN cache[set'].Lines :
            /\ cache'[set'].Lines[j].valid = 1
            /\ cache'[set'].Lines[j].tag = tag'
            /\ cache'[set'].Lines[j].lru = 0
            /\ \A k \in DOMAIN cache[set'].Lines \ {j} :
                cache'[set'].Lines[k].lru =
                    IF cache[set'].Lines[k].lru < cache[set'].Lines[j].lru
                    THEN cache[set'].Lines[k].lru + 1
                    ELSE cache[set'].Lines[k].lru
    ]_vars

\* two fills of a two-line set, then a hit on line 0, whose rank was 1
TouchEffectWitness ==
    /\ lines_per_set = 2
    /\ pc = "loop"
    /\ nEvents = 3
    /\ miss_count = 2
    /\ hit_count = 1
    /\ printed = "hit"
    /\ cache[set].Lines[0].tag = tag
    /\ cache[set].Lines[0].lru = 0
    /\ cache[set].Lines[1].valid = 1
    /\ cache[set].Lines[1].lru = 1

(* C15. A hit does not mutate storage: when a Load, Store or Modify is a   *)
(* hit, valid and tag of every line of the cache are after the event what  *)
(* they were before; lru values change in the target set alone.            *)
HitKeepsStorage ==
    [][(EventStep({"L", "S", "M"}) /\ ClassOf(printed') = "hit") =>
        \A i \in DOMAIN cache :
            /\ \A j \in DOMAIN cache[i].Lines :
                /\ cache'[i].Lines[j].valid = cache[i].Lines[j].valid
                /\ cache'[i].Lines[j].tag = cache[i].Lines[j].tag
            /\ i # set' => cache'[i] = cache[i]
    ]_vars

\* line 1 of a full two-line set was hit by a Modify and took rank 0
HitKeepsStorageWitness ==
    /\ lines_per_set = 2
    /\ pc = "loop"
    /\ printed = "hit hit"
    /\ cache[set].Lines[0].valid = 1
    /\ cache[set].Lines[0].lru = 1
    /\ cache[set].Lines[1].tag = tag
    /\ cache[set].Lines[1].lru = 0

\* in every set the valid lines are those of the slots below some k, their
\* lru values are 0..k-1, and the invalid line of slot j has lru j
ValidPrefixState ==
    \A i \in DOMAIN cache :
        \E k \in 0..lines_per_set :
            /\ \A j \in DOMAIN cache[i].Lines : cache[i].Lines[j].valid = 1 <=> j < k
            /\ {cache[i].Lines[j].lru : j \in {n \in DOMAIN cache[i].Lines : n < k}}
                   = 0..(k - 1)
            /\ \A j \in DOMAIN cache[i].Lines : j >= k => cache[i].Lines[j].lru = j

\* the number of valid lines of set i
Occupancy(c, i) ==
    Cardinality({j \in DOMAIN c[i].Lines : c[i].Lines[j].valid = 1})

(* C17. Valid lines form a prefix: in every state each set has a k such    *)
(* that exactly the slots below k are valid, with lru values a permutation *)
(* of 0..k-1, and every invalid slot j >= k keeps its initial lru j; a     *)
(* fill of a free line goes to slot k, whose lru k exceeds the lru of      *)
(* every valid line.                                                       *)
ValidPrefix ==
    /\ ValidPrefixState
    /\ [][/\ ValidPrefixState'
          /\ (EventStep({"L", "S", "M"}) /\ ClassOf(printed') = "miss") =>
                /\ cache[set'].Lines[Occupancy(cache, set')].valid = 0
                /\ cache[set'].Lines[Occupancy(cache, set')].lru = Occupancy(cache, set')
                /\ cache'[set'].Lines[Occupancy(cache, set')].valid = 1
                /\ cache'[set'].Lines[Occupancy(cache, set')].tag = tag'
                /\ \A j \in DOMAIN cache[set'].Lines :
                    cache[set'].Lines[j].valid = 1 =>
                        cache[set'].Lines[j].lru < Occupancy(cache, set')
      ]_vars

\* a two-line set with its first slot filled and hit, its second slot free
ValidPrefixWitness ==
    /\ lines_per_set = 2
    /\ pc = "loop"
    /\ printed = "hit"
    /\ cache[set].Lines[0].valid = 1
    /\ cache[set].Lines[1].valid = 0
    /\ cache[set].Lines[1].lru = 1

\* misses, less evictions, count the valid lines of the cache
OccupancyCounted ==
    pc = "loop" =>
        /\ eviction_count <= miss_count
        /\ miss_count - eviction_count =
               Cardinality({p \in (DOMAIN cache) \X (0..(lines_per_set - 1)) :
                               cache[p[1]].Lines[p[2]].valid = 1})
        /\ miss_count - eviction_count <= num_sets * lines_per_set

(* C18. Counters and occupancy: evictions <= misses, and misses less       *)
(* evictions is the number of valid lines of the whole cache, at most      *)
(* num_sets * lines_per_set; a line that is valid stays valid.             *)
CounterOccupancy ==
    /\ OccupancyCounted
    /\ [][/\ OccupancyCounted'
          /\ pc' = "loop" =>
                \A i \in DOMAIN cache : \A j \in DOMAIN cache[i].Lines :
                    cache[i].Lines[j].valid = 1 => cache'[i].Lines[j].valid = 1
      ]_vars

\* both lines of a cache of two one-line sets are valid, after an eviction
CounterOccupancyWitness ==
    /\ pc = "loop"
    /\ lines_per_set = 1
    /\ num_sets = 2
    /\ eviction_count >= 1
    /\ miss_count - eviction_count = 2

(* C19. Set isolation: a Load, Store or Modify whose address decodes to    *)
(* set i leaves valid, tag and lru of every line of every other set        *)
(* unchanged.                                                              *)
SetIsolation ==
    [][EventStep({"L", "S", "M"}) =>
        \A k \in DOMAIN cache \ {set'} : cache'[k] = cache[k]
    ]_vars

\* set 1 was just hit while set 0 holds a block
SetIsolationWitness ==
    /\ num_sets = 2
    /\ pc = "loop"
    /\ set = 1
    /\ ClassOf(printed) = "hit"
    /\ ResidentTags(cache, 0) # {}

\* the step left cache and counters as machine state st has them, with its classification
SameOutcome(st) ==
    [st EXCEPT !.found = 0, !.printed = ClassOf(@)] =
        [cache |-> cache', hit_count |-> hit_count', miss_count |-> miss_count',
         eviction_count |-> eviction_count', found |-> 0,
         printed |-> ClassOf(printed')]

(* C20. Load and Store are interchangeable: a Load does to the cache and   *)
(* the counters, with the same classification, what a Store of the same    *)
(* address would have done in its place, and a Store what a Load would.    *)
LoadStoreInterchangeable ==
    [][/\ EventStep({"L"}) => SameOutcome(operationS(Machine, set', tag'))
       /\ EventStep({"S"}) => SameOutcome(operationL(Machine, set', tag'))
    ]_vars

\* a Store has just evicted the block of a one-line set
LoadStoreInterchangeableWitness ==
    /\ lines_per_set = 1
    /\ pc = "loop"
    /\ operation = "S"
    /\ printed = "miss eviction"
    /\ cache[set].Lines[0].valid = 1
    /\ cache[set].Lines[0].tag = tag

\* the branch of the dispatch of simulateCache taken for kind letter op, on
\* machine state st with the decoded set s and tag t
Dispatch(op, st, s, t) ==
    CASE op = "L" -> operationL(st, s, t)
      [] op = "S" -> operationS(st, s, t)
      [] op = "M" -> operationM(st, s, t)
      [] op = "I" -> st
      [] OTHER -> [st EXCEPT !.printed = "Error"]

\* the addresses that agree with a on every bit at or above the block-offset
\* width: those of the block of a
SameBlock(a) ==
    LET offset == 0..(Log2(block_size) - 1)
    IN  {(a \ offset) \cup o : o \in SUBSET offset}

(* C16. Block-offset and size insensitivity, as the step property that     *)
(* carries it along two traces: every address that agrees with the         *)
(* event's address on the bits at or above the block-offset width decodes  *)
(* to the event's set and tag, and the event's classification, counters    *)
(* and cache are those of the dispatch on the kind, the decoded set and    *)
(* tag                                                                     *)
(* and the state before, so that two traces agreeing on kinds and on       *)
(* those bits pass through the same states.                                *)
OffsetInsensitive ==
    [][EventStep({"L", "S", "M", "I"} \cup OtherLetters) =>
        /\ \A a2 \in SameBlock(address') :
            /\ TagOf(a2) = {tag'}
            /\ SetOf(a2) = {set'}
        /\ SameOutcome(Dispatch(operation', Machine, set', tag'))
    ]_vars

\* with two-byte blocks an access to the odd byte of block 0 hits the block
\* that is resident
OffsetInsensitiveWitness ==
    /\ block_size = 2
    /\ pc = "loop"
    /\ address = {0}
    /\ tag = {}
    /\ ClassOf(printed) = "hit"
    /\ TagResident(cache, set, {})

----------------------------------------------------------------------------
(* The trace loop over addresses that use the whole width of mem_addr.     *)

\* %lx stores 64 bits: the addresses above, and those with bit 63 set as well
WideAddresses == Addresses \cup {a \cup {WordBits - 1} : a \in Addresses}

LoadWide ==
    \E a \in WideAddresses :
        /\ Fetch("L", a)
        /\ Commit(operationL(Machine, set', tag'))
        /\ RefAccess

StoreWide ==
    \E a \in WideAddresses :
        /\ Fetch("S", a)
        /\ Commit(operationS(Machine, set', tag'))
        /\ RefAccess

ModifyWide ==
    \E a \in WideAddresses :
        /\ Fetch("M", a)
        /\ Commit(operationM(Machine, set', tag'))
        /\ RefAccess

NextWide ==
    \/ LoadWide
    \/ StoreWide
    \/ ModifyWide
    \/ EndOfTrace

SpecWide == Init /\ [][NextWide]_vars

(* C12. Tag decoding over the full address width: the tag compared on      *)
(* lookup, and stored in the line the access leaves resident, is           *)
(* address >> (log2(block_size) + log2(num_sets)), all the address bits    *)
(* above the set-index field; and an access is a hit only if a valid line  *)
(* of its set holds exactly those bits.                                    *)
FullWidthTag ==
    [][EventStep({"L", "S", "M"}) =>
        LET full == Shr(address', Log2(block_size) + Log2(num_sets))
        IN  /\ tag' = full
            /\ ClassOf(printed') # "none" => TagResident(cache', set', full)
            /\ ClassOf(printed') = "hit" => TagResident(cache, set', full)
    ]_vars

----------------------------------------------------------------------------
(* The decoding of simulateCache alone, over every geometry main accepts.  *)

\* as Init, with s = b = 0 among the geometries
InitDecode ==
    /\ \E s \in 0..MaxS, b \in 0..MaxB, E \in 0..MaxE :
        /\ num_sets = Pow2(s)
        /\ block_size = Pow2(b)
        /\ lines_per_set = E
    /\ cache = ColdCache(num_sets, lines_per_set)
    /\ hit_count = 0
    /\ miss_count = 0
    /\ eviction_count = 0
    /\ operation = ""
    /\ address = {}
    /\ set = 0
    /\ tag = {}
    /\ printed = ""
    /\ pc = "loop"
    /\ summary = <<>>
    /\ nEvents = 0
    /\ recency = [i \in 0..(num_sets - 1) |-> <<>>]
    /\ refClass = ""

\* the two assignments that open the loop body, for one address read
Decode ==
    \E a \in WideAddresses :
        /\ pc = "loop"
        /\ address' = a
        /\ tag' \in TagOf(a)
        /\ set' \in SetOf(a)
        /\ UNCHANGED <<geometry, cache, hit_count, miss_count, eviction_count,
                       operation, printed, pc, summary, nEvents, recency, refClass>>

NextDecode == Decode

SpecDecode == InitDecode /\ [][NextDecode]_vars

\* bits [lo, lo + n) of word x, as a number
Field(x, lo, n) ==
    BitValue({i - lo : i \in {j \in x : j >= lo /\ j < lo + n}})

(* C13. Set-index decoding: for every address and every geometry the       *)
(* decoded set is the field of log2(num_sets) bits of the address that     *)
(* starts at bit log2(block_size), hence an index of the cache in          *)
(* 0..num_sets-1; with num_sets = 1 it is 0.                               *)
SetIndexDecoded ==
    /\ set = Field(address, Log2(block_size), Log2(num_sets))
    /\ set \in 0..(num_sets - 1)
    /\ num_sets = 1 => set = 0

====
